---- MODULE Spec2Model ----
(***************************************************************************)
(* A model of ezduckdb/core.py: the SQL template class (construction,      *)
(* to_string, collect_dataframes) and the DuckDB session wrapper (connect, *)
(* query, __enter__/__exit__).                                              *)
(*                                                                         *)
(* Text is a sequence of one-character strings.  A SQL object is a heap    *)
(* cell [sql, bindings]; its identity is its index in heap.  bindings is   *)
(* the keyword dict in insertion order: a sequence of [key, val] entries.  *)
(* A bound value is a record [kind, v]: kind says which isinstance branch   *)
(* of to_string the value takes.                                            *)
(***************************************************************************)
EXTENDS Integers, Sequences, FiniteSets, TLC

VARIABLES
    heap,       \* the SQL objects constructed so far
    ret,        \* the outcome of the last call
    cfg,        \* the attributes of the DuckDB session object
    conns,      \* every connection duckdb.connect has opened
    conn_attr,  \* self.__connection of the session object
    blocks,     \* the with-blocks on the session that are running, innermost last
    exited,     \* history: the connections whose with-block has exited
    seen        \* history: what to_string / collect_dataframes returned, per object

vars == <<heap, ret, cfg, conns, conn_attr, blocks, exited, seen>>

session == <<cfg, conns, conn_attr, blocks, exited>>

(***************************************************************************)
(* Bounds of the model.                                                    *)
(***************************************************************************)
MaxLen == 4          \* longest template of the character-level specification
MaxFrags == 2        \* most fragments in a template of the nesting specification
MaxConns == 3        \* most connections opened in the session specification

(***************************************************************************)
(* Characters and strings.                                                 *)
(***************************************************************************)
Lower == {"a","b","c","d","e","f","g","h","i","j","k","l","m",
          "n","o","p","q","r","s","t","u","v","w","x","y","z"}
Upper == {"A","B","C","D","E","F","G","H","I","J","K","L","M",
          "N","O","P","Q","R","S","T","U","V","W","X","Y","Z"}
Digits == {"0","1","2","3","4","5","6","7","8","9"}

\* string.Template.idpattern [_a-z][_a-z0-9]* under re.IGNORECASE
IdStart == Lower \cup Upper \cup {"_"}
IdCont == IdStart \cup Digits

\* text[from..] (1-based), empty when from is past the end
Drop(s, n) == SubSeq(s, n + 1, Len(s))

\* Python's "sub in s" on strings
Contains(sub, s) ==
    \E i \in 0..(Len(s) - Len(sub)) : SubSeq(s, i + 1, i + Len(sub)) = sub

\* length of the longest prefix of s made of characters of set C
RECURSIVE SpanLen(_, _)
SpanLen(s, C) ==
    IF s = <<>> \/ Head(s) \notin C THEN 0 ELSE 1 + SpanLen(Tail(s), C)

\* str(n) of a non-negative int
RECURSIVE IntStr(_)
IntStr(n) ==
    IF n < 10 THEN <<ToString(n)>>
    ELSE IntStr(n \div 10) \o <<ToString(n % 10)>>

(***************************************************************************)
(* sqlescapy.sqlescape: quotes are deleted, backslash and percent get a    *)
(* backslash, control characters (newline and tab here) become             *)
(* two-character escapes; every other character, "$" included, is kept.    *)
(***************************************************************************)
sqlescape_char(c) ==
    CASE c = "'" -> <<>>
      [] c = "\"" -> <<>>
      [] c = "\\" -> <<"\\", "\\">>
      [] c = "%" -> <<"\\", "%">>
      [] c = "\n" -> <<"\\", "n">>
      [] c = "\t" -> <<"\\", "t">>
      [] OTHER -> <<c>>

RECURSIVE sqlescape(_)
sqlescape(s) ==
    IF s = <<>> THEN <<>> ELSE sqlescape_char(Head(s)) \o sqlescape(Tail(s))

(***************************************************************************)
(* string.Template(sql).safe_substitute(replacements): one left-to-right   *)
(* scan of the template.  At a "$": "$$" gives "$"; "$" + identifier and   *)
(* "${" + identifier + "}" are placeholders, replaced when the identifier  *)
(* is a key of the mapping and copied otherwise; any other "$" is copied.  *)
(* The scan resumes after the match in the template, never in the output.  *)
(***************************************************************************)
\* the placeholder at the head of s (s starts after a "$"):
\* [len |-> characters of s it takes, name |-> identifier], len = 0 if none
PlaceholderAt(s) ==
    IF s # <<>> /\ Head(s) \in IdStart
    THEN LET n == SpanLen(s, IdCont) IN [len |-> n, name |-> SubSeq(s, 1, n)]
    ELSE IF s # <<>> /\ Head(s) = "{" /\ Len(s) >= 2 /\ s[2] \in IdStart
    THEN LET n == SpanLen(Tail(s), IdCont) IN
         IF Len(s) >= n + 2 /\ s[n + 2] = "}"
         THEN [len |-> n + 2, name |-> SubSeq(s, 2, n + 1)]
         ELSE [len |-> 0, name |-> <<>>]
    ELSE [len |-> 0, name |-> <<>>]

\* s with every occurrence of pat replaced by val, left to right
RECURSIVE ReplaceAll(_, _, _)
ReplaceAll(s, pat, val) ==
    IF Len(s) < Len(pat) THEN s
    ELSE IF SubSeq(s, 1, Len(pat)) = pat
    THEN val \o ReplaceAll(Drop(s, Len(pat)), pat, val)
    ELSE <<Head(s)>> \o ReplaceAll(Tail(s), pat, val)

\* substitution by one str.replace("$" + key, value) per key, each over the
\* text the one before it produced
RECURSIVE replace_each(_, _)
replace_each(t, m) ==
    IF DOMAIN m = {} THEN t
    ELSE LET k == CHOOSE k \in DOMAIN m : TRUE IN
         replace_each(ReplaceAll(t, <<"$">> \o k, m[k]),
                      [x \in DOMAIN m \ {k} |-> m[x]])

RECURSIVE safe_substitute(_, _)
safe_substitute(t, m) ==
    IF t = <<>> THEN <<>>
    ELSE IF Head(t) # "$" THEN <<Head(t)>> \o safe_substitute(Tail(t), m)
    ELSE LET r == Tail(t)
             p == PlaceholderAt(r)
         IN IF r # <<>> /\ Head(r) = "$"
            THEN <<"$">> \o safe_substitute(Tail(r), m)
            ELSE IF p.len > 0
            THEN (IF p.name \in DOMAIN m THEN m[p.name]
                  ELSE <<"$">> \o SubSeq(r, 1, p.len))
                 \o safe_substitute(Drop(r, p.len), m)
            ELSE <<"$">> \o safe_substitute(r, m)

(***************************************************************************)
(* Bound values.  There are two DataFrame objects; id(value) of a DataFrame *)
(* is its identity token, distinct for distinct live objects.              *)
(***************************************************************************)
DataFrames == {1, 2}

id(d) == d

DfVal(d) == [kind |-> "df", v |-> d]
SqlVal(q) == [kind |-> "sql", v |-> q]
StrVal(s) == [kind |-> "str", v |-> s]
IntVal(n) == [kind |-> "int", v |-> n]
BoolVal(b) == [kind |-> "bool", v |-> b]
\* the float whole.frac
FloatVal(whole, frac) == [kind |-> "float", v |-> <<whole, frac>>]
NoneVal == [kind |-> "none", v |-> 0]
\* a value of a type with no branch in to_string, e.g. the list [1, 2, 3]
ListVal == [kind |-> "list", v |-> 0]

\* f"df_{id(value)}"
df_name(d) == <<"d", "f", "_">> \o IntStr(id(d))

\* the empty dict
EmptyDict == [k \in {} |-> <<>>]

\* d[k] = v on a dict
DictSet(d, k, v) == [x \in DOMAIN d \cup {k} |-> IF x = k THEN v ELSE d[x]]

\* A dict whose item order is read (collect_dataframes' result, which
\* DuckDB.query iterates) is a sequence of [k, v] items in insertion order.
ItemKeys(d) == {d[i].k : i \in 1..Len(d)}

ItemValue(d, k) == d[CHOOSE i \in 1..Len(d) : d[i].k = k].v

\* d[k] = v: a new key goes last, a known key keeps its place
ItemSet(d, k, v) ==
    IF k \in ItemKeys(d)
    THEN [i \in 1..Len(d) |-> IF d[i].k = k THEN [k |-> k, v |-> v] ELSE d[i]]
    ELSE Append(d, [k |-> k, v |-> v])

\* d.update(e)
RECURSIVE ItemUpdate(_, _)
ItemUpdate(d, e) ==
    IF e = <<>> THEN d
    ELSE ItemUpdate(ItemSet(d, Head(e).k, Head(e).v), Tail(e))

(***************************************************************************)
(* SQL.to_string.  The result is [raised, key, text]: raised is TRUE when  *)
(* ValueError(f"Invalid type for {key}") left the call, and then text is   *)
(* empty: nothing is returned.                                             *)
(***************************************************************************)
Returned(text) == [raised |-> FALSE, key |-> <<>>, text |-> text]
Raised(key) == [raised |-> TRUE, key |-> key, text |-> <<>>]

\* f"'{sqlescape(value)}'"
quoted(v) == <<"'">> \o sqlescape(v) \o <<"'">>

\* str(value) of an int, a float or a bool
str(value) ==
    CASE value.kind = "bool" ->
           (IF value.v THEN <<"T", "r", "u", "e">> ELSE <<"F", "a", "l", "s", "e">>)
      [] value.kind = "float" ->
           IntStr(value.v[1]) \o <<".">> \o IntStr(value.v[2])
      [] OTHER -> IntStr(value.v)

RECURSIVE to_string(_), replacements(_, _, _)

\* the loop of to_string over self.bindings.items(), from entry i on, with
\* the dict built so far; [raised, key, map]
replacements(q, i, acc) ==
    LET b == heap[q].bindings IN
    IF i > Len(b) THEN [raised |-> FALSE, key |-> <<>>, map |-> acc]
    ELSE LET key == b[i].key
             value == b[i].val
         IN CASE value.kind = "df" ->
                   replacements(q, i + 1, DictSet(acc, key, df_name(value.v)))
              [] value.kind = "sql" ->
                   LET sub == to_string(value.v) IN
                   IF sub.raised
                   THEN [raised |-> TRUE, key |-> sub.key, map |-> acc]
                   ELSE replacements(q, i + 1,
                            DictSet(acc, key, <<"(">> \o sub.text \o <<")">>))
              [] value.kind = "str" ->
                   replacements(q, i + 1, DictSet(acc, key, quoted(value.v)))
              [] value.kind \in {"int", "float", "bool"} ->
                   replacements(q, i + 1, DictSet(acc, key, str(value)))
              [] value.kind = "none" ->
                   replacements(q, i + 1, DictSet(acc, key, <<"n", "u", "l", "l">>))
              [] OTHER -> [raised |-> TRUE, key |-> key, map |-> acc]

\* a to_string that returns what it has when a binding has no branch
to_string_lenient(q) ==
    Returned(safe_substitute(heap[q].sql, replacements(q, 1, EmptyDict).map))

to_string(q) ==
    LET r == replacements(q, 1, EmptyDict) IN
    IF r.raised THEN Raised(r.key)
    ELSE Returned(safe_substitute(heap[q].sql, r.map))

\* the replacement texts stored into self.bindings instead of a fresh dict
bindings_written_back(q) ==
    LET b == heap[q].bindings
        r == replacements(q, 1, EmptyDict)
    IN IF r.raised THEN b
       ELSE [i \in 1..Len(b) |-> [key |-> b[i].key, val |-> StrVal(r.map[b[i].key])]]

\* self.bindings of q after to_string has run: the method only reads it
bindings_after_to_string(q) == heap[q].bindings

(***************************************************************************)
(* SQL.collect_dataframes: a dict from df_name to the DataFrame object.    *)
(***************************************************************************)
RECURSIVE collect_dataframes(_), collect_from(_, _, _)

collect_from(q, i, dataframes) ==
    LET b == heap[q].bindings IN
    IF i > Len(b) THEN dataframes
    ELSE LET value == b[i].val IN
         CASE value.kind = "df" ->
                collect_from(q, i + 1, ItemSet(dataframes, df_name(value.v), value.v))
           [] value.kind = "sql" ->
                collect_from(q, i + 1,
                    ItemUpdate(dataframes, collect_dataframes(value.v)))
           [] OTHER -> collect_from(q, i + 1, dataframes)

\* a collection that looks at the DataFrames bound in q itself only
RECURSIVE collect_own(_, _, _)
collect_own(q, i, dataframes) ==
    LET b == heap[q].bindings IN
    IF i > Len(b) THEN dataframes
    ELSE IF b[i].val.kind = "df"
    THEN collect_own(q, i + 1, ItemSet(dataframes, df_name(b[i].val.v), b[i].val.v))
    ELSE collect_own(q, i + 1, dataframes)

collect_top_level(q) == collect_own(q, 1, <<>>)

collect_dataframes(q) == collect_from(q, 1, <<>>)

(***************************************************************************)
(* The outcome of the last call, as the caller sees it.                    *)
(***************************************************************************)
NoCall ==
    [op |-> "none", self |-> 0, raised |-> "", key |-> <<>>, text |-> <<>>,
     dfs |-> <<>>, args |-> <<>>, value |-> ""]

(***************************************************************************)
(* SQL.__init__(sql, **bindings)                                           *)
(***************************************************************************)
\* a constructor without the assert
SQL_init_unchecked(sql, bindings) ==
    /\ heap' = Append(heap, [sql |-> sql, bindings |-> bindings])
    /\ ret' = [NoCall EXCEPT !.op = "init", !.self = Len(heap) + 1,
                             !.args = <<sql, bindings>>]
    /\ UNCHANGED session

SQL_init(sql, bindings) ==
    /\ IF \A i \in 1..Len(bindings) : Contains(bindings[i].key, sql)
       THEN /\ heap' = Append(heap, [sql |-> sql, bindings |-> bindings])
            /\ ret' = [NoCall EXCEPT !.op = "init", !.self = Len(heap) + 1,
                                     !.args = <<sql, bindings>>]
       ELSE /\ heap' = heap
            /\ ret' = [NoCall EXCEPT !.op = "init", !.raised = "AssertionError",
                                     !.args = <<sql, bindings>>]
    /\ UNCHANGED session

\* a caller's q.to_string()
RunToString(q) ==
    /\ q \in 1..Len(heap)
    /\ LET r == to_string(q) IN
       ret' = [NoCall EXCEPT !.op = "to_string", !.self = q,
                    !.raised = IF r.raised THEN "ValueError" ELSE "",
                    !.key = r.key, !.text = r.text]
    /\ heap' = [heap EXCEPT ![q].bindings = bindings_after_to_string(q)]
    /\ UNCHANGED session

\* a caller's q.collect_dataframes()
RunCollectDataframes(q) ==
    /\ q \in 1..Len(heap)
    /\ ret' = [NoCall EXCEPT !.op = "collect", !.self = q,
                    !.dfs = collect_dataframes(q)]
    /\ UNCHANGED <<heap, session>>

(***************************************************************************)
(* Character-level specification: one SQL object over every template of at *)
(* most MaxLen characters, bound to primitives, strings and None.          *)
(***************************************************************************)
TextAlphabet == {"$", "x", "y", "{", "}"}

SeqsUpTo(S, n) == UNION {[1..k -> S] : k \in 0..n}

TextTemplates == SeqsUpTo(TextAlphabet, MaxLen)

TextNames == <<<<"x">>,  <<"y">>>>

TextValues ==
    {IntVal(7), FloatVal(1, 5), BoolVal(TRUE), NoneVal,
     StrVal(<<"$", "x">>), StrVal(<<"a", "'">>)}

\* keyword dicts over names (a sequence of keys), in the order of names, the
\* i-th key absent or bound to a value of Vs[i]
RECURSIVE KwargsOver(_, _)
KwargsOver(names, Vs) ==
    IF names = <<>> THEN {<<>>}
    ELSE LET rest == KwargsOver(Tail(names), Tail(Vs)) IN
         rest \cup {<<[key |-> Head(names), val |-> v]>> \o r :
                        v \in Head(Vs), r \in rest}

InitState ==
    /\ heap = <<>>
    /\ ret = NoCall
    /\ conns = <<>>
    /\ conn_attr = [set |-> FALSE, conn |-> 0]
    /\ blocks = <<>>
    /\ exited = {}
    /\ seen = <<>>

NoSession == [options |-> <<>>, s3_storage_used |-> FALSE, aws_profile |-> <<>>]

InitText == InitState /\ cfg = NoSession

\* the one constructor call of this specification
NewTextSQL ==
    /\ ret = NoCall
    /\ \E sql \in TextTemplates, b \in KwargsOver(TextNames, <<TextValues, TextValues>>) :
          SQL_init(sql, b)
    /\ UNCHANGED seen

CallToString == \E q \in 1..Len(heap) : RunToString(q) /\ UNCHANGED seen

CallCollect == \E q \in 1..Len(heap) : RunCollectDataframes(q) /\ UNCHANGED seen

NextText == NewTextSQL \/ CallToString

SpecText == InitText /\ [][NextText]_vars

(***************************************************************************)
(* Nesting specification: SQL objects whose templates are made of at most  *)
(* MaxFrags fragments, bound to ints, strings that contain "$y", and the   *)
(* SQL object made before.                                                 *)
(***************************************************************************)
NestFragments == {<<"$", "x">>, <<"$", "y">>, <<"$", "$">>, <<" ">>}

RECURSIVE Flatten(_)
Flatten(ss) == IF ss = <<>> THEN <<>> ELSE Head(ss) \o Flatten(Tail(ss))

NestTemplates == {Flatten(f) : f \in SeqsUpTo(NestFragments, MaxFrags)}

Nested == {SqlVal(q) : q \in 1..Len(heap)}

NestValues == {IntVal(7), StrVal(<<"$", "y">>)} \cup Nested

\* an object, and then one that can nest it; a caller whose constructor call
\* raised makes no further object
NewNestSQL ==
    /\ Len(heap) <= 1
    /\ ret.raised = ""
    /\ \E sql \in NestTemplates,
          b \in KwargsOver(TextNames, <<NestValues, NestValues>>) :
          SQL_init(sql, b)
    /\ UNCHANGED seen

NextNest == NewNestSQL \/ CallToString

SpecNest == InitText /\ [][NextNest]_vars

(***************************************************************************)
(* Tree specifications: up to MaxQueries SQL objects over one template with *)
(* the placeholders $x and $y, each bound (or not) to a value or to a SQL   *)
(* object made before, so that objects nest and are shared.                 *)
(***************************************************************************)
MaxQueries == 3

TreeTemplate == <<"$", "x", " ", "$", "y">>

Frames == {DfVal(d) : d \in DataFrames}

NewSQLOver(Vx, Vy) ==
    /\ Len(heap) < MaxQueries
    /\ \E b \in KwargsOver(TextNames, <<Vx \cup Nested, Vy \cup Nested>>) :
          SQL_init(TreeTemplate, b)
    /\ UNCHANGED seen

\* DataFrames and nested objects under both names
NewFrameSQL == NewSQLOver(Frames, Frames)

NextTree == NewFrameSQL \/ CallCollect

SpecTree == InitText /\ [][NextTree]_vars

\* x bound to a value of any kind, y to nested objects; to_string is called
\* on the object made last (an object made earlier was the last one in an
\* earlier state, and nothing made after it changes what it renders)
AnyKind ==
    {DfVal(1), StrVal(<<"a">>), IntVal(7), FloatVal(1, 5), BoolVal(FALSE),
     NoneVal, ListVal}

NewTypedSQL == NewSQLOver(AnyKind, {})

CallToStringOnLast == heap # <<>> /\ RunToString(Len(heap)) /\ UNCHANGED seen

NextTypes == NewTypedSQL \/ CallToStringOnLast

SpecTypes == InitText /\ [][NextTypes]_vars

(***************************************************************************)
(* Repetition specification: calls of to_string and collect_dataframes on  *)
(* an object and on one that can nest it, with what each object was at     *)
(* construction and what every call returned kept in seen.                 *)
(***************************************************************************)
NewRepeatSQL ==
    /\ Len(heap) <= 1
    /\ \E b \in KwargsOver(TextNames, <<Frames \cup Nested, Frames \cup Nested>>) :
          SQL_init(TreeTemplate, b)
    /\ seen' = Append(seen, [made |-> heap'[Len(heap')], texts |-> {}, names |-> {}])

RepeatToString ==
    \E q \in 1..Len(heap) :
        /\ RunToString(q)
        /\ seen' = [seen EXCEPT ![q].texts = @ \cup {ret'.text}]

RepeatCollect ==
    \E q \in 1..Len(heap) :
        /\ RunCollectDataframes(q)
        /\ seen' = [seen EXCEPT ![q].names = @ \cup {ItemKeys(ret'.dfs)}]

NextRepeat == NewRepeatSQL \/ RepeatToString \/ RepeatCollect

SpecRepeat == InitText /\ [][NextRepeat]_vars

(***************************************************************************)
(* class DuckDB.  A connection is a cell of conns: open, the calls made on  *)
(* it in order (log: db.query statements and db.register calls), the names *)
(* registered on it (registered), and, as history, the method that opened  *)
(* it (by).                                                                *)
(***************************************************************************)
\* db.query(...) of a statement
Statement(kind, arg) == [kind |-> kind, arg |-> arg, obj |-> 0]

\* the calls db.register(key, value) for the items of a dict, in order
RegisterCalls(items) ==
    [i \in 1..Len(items) |->
        [kind |-> "register", arg |-> items[i].k, obj |-> items[i].v]]

\* connect with the initialization SQL sent before the remote-storage setup
options_first ==
    <<Statement("options", cfg.options)>>
    \o (IF cfg.s3_storage_used
        THEN <<Statement("install httpfs; load httpfs;", <<>>),
               Statement("install aws; load aws;", <<>>),
               Statement("CALL load_aws_credentials", cfg.aws_profile)>>
        ELSE <<>>)

\* the statements DuckDB.connect sends to the new connection, in order
connect_statements ==
    (IF cfg.s3_storage_used
     THEN <<Statement("install httpfs; load httpfs;", <<>>),
            Statement("install aws; load aws;", <<>>),
            Statement("CALL load_aws_credentials", cfg.aws_profile)>>
     ELSE <<>>)
    \o <<Statement("options", cfg.options)>>

\* what can go wrong in connect: duckdb.connect raises (Len + 1), statement
\* number k raises (k), nothing (0)
ConnectFailures == 0..(Len(connect_statements) + 1)

\* DuckDB.connect, called by method by: [raised, conns, db]; a statement that
\* raises has been sent
connect(fail, by) ==
    IF fail = Len(connect_statements) + 1
    THEN [raised |-> TRUE, conns |-> conns, db |-> 0]
    ELSE LET sent == IF fail = 0 THEN connect_statements
                     ELSE SubSeq(connect_statements, 1, fail)
         IN [raised |-> fail # 0,
             conns |-> Append(conns, [open |-> TRUE, log |-> sent,
                                      registered |-> <<>>, by |-> by]),
             db |-> Len(conns) + 1]

\* a caller's session.connect()
RunConnect(fail) ==
    /\ LET r == connect(fail, "connect") IN
       /\ conns' = r.conns
       /\ ret' = [NoCall EXCEPT !.op = "connect", !.self = r.db,
                       !.raised = IF r.raised THEN "Error" ELSE ""]
    /\ UNCHANGED <<heap, cfg, conn_attr, blocks, exited>>

\* what the engine does in a DuckDB.query call: <<"connect", k>> is failure k
\* of ConnectFailures, <<"register", k>> the k-th db.register raising, and
\* for the rendered text the engine raises, returns None or returns a relation
QueryOutcomes ==
    {<<"connect", k>> : k \in ConnectFailures \ {0}}
    \cup {<<"register", k>> : k \in 1..Cardinality(DataFrames)}
    \cup {<<"error", 0>>, <<"None", 0>>, <<"relation", 0>>}

\* DuckDB.query(select_statement)
RunQuery(q, outcome) ==
    LET r == connect(IF outcome[1] = "connect" THEN outcome[2] ELSE 0, "query")
        db == r.db
        dataframes == collect_dataframes(q)
        text == to_string(q)
        regfail == IF outcome[1] = "register" THEN outcome[2] ELSE 0
        registering ==
            [r.conns EXCEPT
                ![db].registered = SubSeq(dataframes, 1, regfail - 1),
                ![db].log = @ \o SubSeq(RegisterCalls(dataframes), 1, regfail)]
        registered ==
            [r.conns EXCEPT ![db].registered = dataframes,
                            ![db].log = @ \o RegisterCalls(dataframes)]
        call == [NoCall EXCEPT !.op = "query", !.self = q, !.args = <<db>>]
    IN
    /\ q \in 1..Len(heap)
    /\ outcome \in QueryOutcomes
    /\ regfail <= Len(dataframes)
    /\ IF r.raised
       THEN /\ conns' = r.conns
            /\ ret' = [call EXCEPT !.raised = "Error"]
            /\ heap' = heap
       ELSE IF regfail # 0
       THEN /\ conns' = registering
            /\ ret' = [call EXCEPT !.raised = "Error"]
            /\ heap' = heap
       ELSE IF text.raised
       THEN /\ conns' = registered
            /\ ret' = [call EXCEPT !.raised = "ValueError", !.key = text.key]
            /\ heap' = [heap EXCEPT ![q].bindings = bindings_after_to_string(q)]
       ELSE /\ conns' = [registered EXCEPT
                            ![db].log = Append(@, Statement("select", text.text))]
            /\ ret' = [call EXCEPT
                          !.raised = IF outcome[1] = "error" THEN "Error" ELSE "",
                          !.value = CASE outcome[1] = "None" -> "None"
                                      [] outcome[1] = "relation" -> "DataFrame"
                                      [] OTHER -> ""]
            /\ heap' = [heap EXCEPT ![q].bindings = bindings_after_to_string(q)]
    /\ UNCHANGED <<cfg, conn_attr, blocks, exited>>

\* DuckDB.__enter__ at the start of a with-block
Enter(fail) ==
    /\ LET r == connect(fail, "enter") IN
       /\ conns' = r.conns
       /\ IF r.raised
          THEN /\ ret' = [NoCall EXCEPT !.op = "enter", !.raised = "Error"]
               /\ UNCHANGED <<conn_attr, blocks>>
          ELSE /\ ret' = [NoCall EXCEPT !.op = "enter", !.self = r.db]
               /\ conn_attr' = [set |-> TRUE, conn |-> r.db]
               /\ blocks' = Append(blocks, r.db)
    /\ UNCHANGED <<heap, cfg, exited>>

\* DuckDB.__exit__ at the end of the innermost running with-block, which ends
\* normally or (error) because an exception leaves its body; ret.self is the
\* connection the block was given, ret.args the connections the call closed
Exit(error) ==
    /\ blocks # <<>>
    /\ LET mine == blocks[Len(blocks)]
           call == [NoCall EXCEPT !.op = "exit", !.self = mine]
       IN IF conn_attr.conn = 0
          THEN \* None.close()
               /\ ret' = [call EXCEPT !.raised = "AttributeError"]
               /\ UNCHANGED <<conns, conn_attr>>
          ELSE /\ conns' = [conns EXCEPT ![conn_attr.conn].open = FALSE]
               /\ conn_attr' = [set |-> TRUE, conn |-> 0]
               /\ ret' = [call EXCEPT !.args = <<conn_attr.conn>>,
                               !.raised = IF error THEN "Error" ELSE ""]
    /\ blocks' = SubSeq(blocks, 1, Len(blocks) - 1)
    /\ exited' = exited \cup {blocks[Len(blocks)]}
    /\ UNCHANGED <<heap, cfg>>

(***************************************************************************)
(* Session specification: one DuckDB object, configured in any of          *)
(* SessionConfigs, used through connect() and through with-blocks, which   *)
(* nest and follow one another.                                            *)
(***************************************************************************)
SessionConfigs ==
    {[options |-> <<>>, s3_storage_used |-> TRUE,
      aws_profile |-> <<"c", "o", "d", "e", "n", "y", "m">>],
     [options |-> <<"S">>, s3_storage_used |-> TRUE, aws_profile |-> <<"p">>],
     [options |-> <<"S">>, s3_storage_used |-> FALSE,
      aws_profile |-> <<"c", "o", "d", "e", "n", "y", "m">>]}

InitSession == InitState /\ cfg \in SessionConfigs

CallConnect ==
    /\ Len(conns) < MaxConns
    /\ \E fail \in ConnectFailures : RunConnect(fail)
    /\ UNCHANGED seen

WithEnter ==
    /\ Len(conns) < MaxConns
    /\ \E fail \in ConnectFailures : Enter(fail)
    /\ UNCHANGED seen

WithExit == \E error \in BOOLEAN : Exit(error) /\ UNCHANGED seen

NextSession == CallConnect \/ WithEnter \/ WithExit

SpecSession == InitSession /\ [][NextSession]_vars

(***************************************************************************)
(* Query specification: SQL objects that nest and share DataFrames, with a *)
(* list bound here and there, and then one DuckDB.query call on the object *)
(* made last (an object made earlier was the last one in an earlier state, *)
(* and nothing made after it changes what it renders or collects).         *)
(***************************************************************************)
NewQuerySQL == conns = <<>> /\ NewSQLOver(Frames \cup {ListVal}, {})

CallQuery ==
    /\ conns = <<>>
    /\ heap # <<>>
    /\ \E outcome \in QueryOutcomes : RunQuery(Len(heap), outcome)
    /\ UNCHANGED seen

NextQuery == NewQuerySQL \/ CallQuery

SpecQuery == InitSession /\ [][NextQuery]_vars

(***************************************************************************)
(* Vocabulary of the properties.                                           *)
(***************************************************************************)
Keys(b) == {b[i].key : i \in 1..Len(b)}

\* the number of occurrences of character c in s
RECURSIVE Count(_, _)
Count(c, s) ==
    IF s = <<>> THEN 0
    ELSE (IF Head(s) = c THEN 1 ELSE 0) + Count(c, Tail(s))

\* the kinds of value to_string has a rendering rule for
SupportedKinds == {"df", "sql", "str", "int", "float", "bool", "none"}

ValueOf(b, k) == b[CHOOSE i \in 1..Len(b) : b[i].key = k].val

\* k occurs in t as a run of consecutive characters
Occurs(k, t) ==
    \E at \in 1..(Len(t) + 1) :
        /\ at + Len(k) - 1 <= Len(t)
        /\ \A n \in 1..Len(k) : t[at + n - 1] = k[n]

\* s cut into the pieces string.Template sees: "lit" one literal character
\* (a "$" that starts nothing included), "esc" the escape "$$", "ph" a
\* placeholder $name or ${name}
RECURSIVE Tokenize(_)
Tokenize(s) ==
    IF s = <<>> THEN <<>>
    ELSE IF Head(s) # "$"
    THEN <<[kind |-> "lit", text |-> <<Head(s)>>, name |-> <<>>]>>
         \o Tokenize(Tail(s))
    ELSE LET r == Tail(s)
             p == PlaceholderAt(r)
         IN IF r # <<>> /\ Head(r) = "$"
            THEN <<[kind |-> "esc", text |-> <<"$", "$">>, name |-> <<>>]>>
                 \o Tokenize(Tail(r))
            ELSE IF p.len > 0
            THEN <<[kind |-> "ph", text |-> <<"$">> \o SubSeq(r, 1, p.len),
                    name |-> p.name]>> \o Tokenize(Drop(r, p.len))
            ELSE <<[kind |-> "lit", text |-> <<"$">>, name |-> <<>>]>>
                 \o Tokenize(r)

\* the textual encoding of a primitive, string or None value
Encoding(value) ==
    CASE value.kind = "str" -> quoted(value.v)
      [] value.kind \in {"int", "float", "bool"} -> str(value)
      [] value.kind = "none" -> <<"n", "u", "l", "l">>

OnlyPrimitives(b) ==
    \A i \in 1..Len(b) : b[i].val.kind \in {"str", "int", "float", "bool", "none"}

\* the pieces toks put together again: a placeholder whose name is bound in
\* b gives the encoding of its value, an escape gives esc, anything else its
\* own text
RECURSIVE Fill(_, _, _)
Fill(toks, b, esc) ==
    IF toks = <<>> THEN <<>>
    ELSE LET t == Head(toks) IN
         (CASE t.kind = "ph" /\ t.name \in Keys(b) -> Encoding(ValueOf(b, t.name))
            [] t.kind = "esc" -> esc
            [] OTHER -> t.text)
         \o Fill(Tail(toks), b, esc)

\* the last call was a to_string that returned, on a SQL object bound to
\* primitives, strings and None only
RenderedPrimitives ==
    /\ ret.op = "to_string"
    /\ ret.raised = ""
    /\ OnlyPrimitives(heap[ret.self].bindings)

\* C5 as the specification states it: no $name token of a bound name is left
\* in the result, and the text outside the bound placeholders is the
\* template's, character for character.
C5_AsStated ==
    RenderedPrimitives =>
        LET q == heap[ret.self] IN
        /\ \A i \in DOMAIN Tokenize(ret.text) :
              LET t == Tokenize(ret.text)[i] IN
              t.kind = "ph" => t.name \notin Keys(q.bindings)
        /\ ret.text = Fill(Tokenize(q.sql), q.bindings, <<"$", "$">>)

\* every "$" of template t starts a placeholder whose name is bound in b
EveryDollarBound(t, b) ==
    \A i \in DOMAIN Tokenize(t) :
        LET k == Tokenize(t)[i] IN
        /\ k.kind # "esc"
        /\ k.text # <<"$">>
        /\ k.kind = "ph" => k.name \in Keys(b)

NoDollarInValues(b) ==
    \A i \in 1..Len(b) : b[i].val.kind = "str" => Count("$", b[i].val.v) = 0

\* C5, amended: to_string on primitive, string and None bindings replaces
\* every placeholder whose name is bound by the encoding of its value and
\* copies the rest of the template character for character, except that each
\* escape "$$" comes out as one "$"; and when every "$" of the template starts
\* a placeholder whose name is bound and no string value contains "$", no "$",
\* hence no $name token, is left in the result.
C5_RoundTrip ==
    RenderedPrimitives =>
        LET q == heap[ret.self] IN
        /\ ret.text = Fill(Tokenize(q.sql), q.bindings, <<"$">>)
        /\ (EveryDollarBound(q.sql, q.bindings) /\ NoDollarInValues(q.bindings))
               => Count("$", ret.text) = 0

\* a rendering that replaced a bound placeholder next to literal text
C5_Witness ==
    /\ RenderedPrimitives
    /\ LET q == heap[ret.self] IN
       /\ EveryDollarBound(q.sql, q.bindings)
       /\ NoDollarInValues(q.bindings)
       /\ \E i, j \in DOMAIN Tokenize(q.sql) :
             /\ Tokenize(q.sql)[i].kind = "ph"
             /\ Tokenize(q.sql)[j].kind = "lit"
       /\ ret.text # q.sql

\* C8: a constructor call succeeds exactly when every binding name occurs in
\* the template; a failed call raises the assertion error and leaves no SQL
\* object behind; every SQL object that exists has all its binding names in its
\* template.
C8_Construction ==
    /\ ret.op = "init" =>
          LET sql == ret.args[1]
              b == ret.args[2]
          IN /\ ret.raised = "" <=> \A k \in Keys(b) : Occurs(k, sql)
             /\ ret.raised # "" => ret.raised = "AssertionError" /\ heap = <<>>
             /\ ret.raised = "" =>
                   heap = <<[sql |-> sql, bindings |-> b]>> /\ ret.self = 1
    /\ \A q \in 1..Len(heap) :
          \A k \in Keys(heap[q].bindings) : Occurs(k, heap[q].sql)

\* a constructor call that failed on its second binding name
C8_Witness ==
    /\ ret.op = "init"
    /\ ret.raised = "AssertionError"
    /\ Len(ret.args[2]) = 2
    /\ Occurs(ret.args[2][1].key, ret.args[1])

(***************************************************************************)
(* C9                                                                      *)
(***************************************************************************)
\* the "$" characters a single pass leaves in the text of SQL object q: one
\* for each "$" of the template that starts no bound placeholder, and those
\* of the text each bound placeholder stands for
RECURSIVE Dollars(_), DollarsOf(_, _)
DollarsOf(q, toks) ==
    IF toks = <<>> THEN 0
    ELSE LET t == Head(toks)
             b == heap[q].bindings
         IN (IF t.kind = "ph" /\ t.name \in Keys(b)
             THEN LET value == ValueOf(b, t.name) IN
                  CASE value.kind = "str" -> Count("$", value.v)
                    [] value.kind = "sql" -> Dollars(value.v)
                    [] OTHER -> 0
             ELSE IF t.kind = "lit" /\ t.text # <<"$">> THEN 0 ELSE 1)
            + DollarsOf(q, Tail(toks))

Dollars(q) == DollarsOf(q, Tokenize(heap[q].sql))

\* C9: to_string substitutes in one pass.  No "$" that a bound value brings
\* into the text (a string value, the text of a nested SQL object) is
\* consumed by a later substitution, also when the name after it is bound in
\* the enclosing object, and every placeholder of the template whose name is
\* not bound is in the result as written.
C9_SinglePass ==
    (ret.op = "to_string" /\ ret.raised = "") =>
        LET q == heap[ret.self] IN
        /\ Count("$", ret.text) = Dollars(ret.self)
        /\ \A i \in DOMAIN Tokenize(q.sql) :
              LET t == Tokenize(q.sql)[i] IN
              (t.kind = "ph" /\ t.name \notin Keys(q.bindings))
                  => Occurs(t.text, ret.text)

\* an enclosing object rendered a nested object whose text has the unbound
\* placeholder $y, and binds y itself, to a string that contains $y
C9_Witness ==
    /\ ret.op = "to_string"
    /\ ret.raised = ""
    /\ LET q == heap[ret.self] IN
       /\ <<"y">> \in Keys(q.bindings)
       /\ ValueOf(q.bindings, <<"y">>) = StrVal(<<"$", "y">>)
       /\ Occurs(<<"'", "$", "y", "'">>, ret.text)
       /\ \E i \in DOMAIN Tokenize(q.sql) :
             /\ Tokenize(q.sql)[i].kind = "ph"
             /\ Tokenize(q.sql)[i].name = <<"x">>
       /\ \E i \in 1..Len(q.bindings) :
             /\ q.bindings[i].key = <<"x">>
             /\ q.bindings[i].val.kind = "sql"
             /\ heap[q.bindings[i].val.v].bindings = <<>>
             /\ Occurs(<<"$", "y">>, heap[q.bindings[i].val.v].sql)
       /\ Occurs(<<"(", "$", "y", ")">>, ret.text)

(***************************************************************************)
(* C4, C6, C10                                                             *)
(***************************************************************************)
\* the SQL objects bound directly in q
Children(q) ==
    {heap[q].bindings[i].val.v :
        i \in {j \in 1..Len(heap[q].bindings) : heap[q].bindings[j].val.kind = "sql"}}

Max(S) == CHOOSE m \in S : \A n \in S : n <= m
Min(S) == CHOOSE m \in S : \A n \in S : m <= n

\* S is a path of bindings from its newest to its oldest object (an object
\* can only bind objects made before it)
IsPath(S) ==
    \A r \in S \ {Max(S)} : r \in Children(Min({p \in S : p > r}))

\* the SQL objects reachable from q through nested bindings, q included
Reachable(q) ==
    {r \in 1..Len(heap) :
        \E S \in SUBSET (1..Len(heap)) :
            S # {} /\ Max(S) = q /\ Min(S) = r /\ IsPath(S)}

\* the DataFrames bound anywhere in the tree of q
FramesOf(q) ==
    {d \in DataFrames :
        \E r \in Reachable(q) : \E i \in 1..Len(heap[r].bindings) :
            heap[r].bindings[i].val = DfVal(d)}

\* C4: collect_dataframes returns exactly the aliases of the DataFrames bound
\* in the object or in a nested object at any depth, each alias mapped to its
\* own DataFrame, one entry per DataFrame however many paths lead to it.
C4_Collect ==
    ret.op = "collect" =>
        /\ ItemKeys(ret.dfs) = {df_name(d) : d \in FramesOf(ret.self)}
        /\ \A d \in FramesOf(ret.self) :
              \A i \in 1..Len(ret.dfs) : ret.dfs[i].k = df_name(d) <=> ret.dfs[i].v = d
        /\ Len(ret.dfs) = Cardinality(FramesOf(ret.self))

\* a collection over two levels of nesting that reaches one DataFrame by two
\* paths and another one at the bottom only
C4_Witness ==
    /\ ret.op = "collect"
    /\ Len(heap) = 3
    /\ ret.self = 3
    /\ Reachable(3) = {1, 2, 3}
    /\ 1 \in Children(2)
    /\ 1 \notin Children(3)
    /\ FramesOf(3) = DataFrames
    /\ \E d \in DataFrames :
          /\ \E i \in 1..Len(heap[3].bindings) : heap[3].bindings[i].val = DfVal(d)
          /\ \E i \in 1..Len(heap[1].bindings) : heap[1].bindings[i].val = DfVal(d)
    /\ \E d \in DataFrames :
          \A i \in 1..Len(heap[3].bindings) : heap[3].bindings[i].val # DfVal(d)

\* the bindings in the tree of q whose value has no rendering rule
Offending(q) ==
    {<<r, i>> \in (1..Len(heap)) \X (1..Len(TextNames)) :
        /\ r \in Reachable(q)
        /\ i <= Len(heap[r].bindings)
        /\ heap[r].bindings[i].val.kind \notin SupportedKinds}

\* C6: to_string raises the invalid-type error exactly when a binding of the
\* object or of a nested object at any depth has a value of an unsupported
\* type; the error names such a binding and no text is returned; otherwise a
\* text is returned.
C6_InvalidType ==
    ret.op = "to_string" =>
        /\ ret.raised = "ValueError" <=> Offending(ret.self) # {}
        /\ ret.raised = "ValueError" =>
              /\ ret.text = <<>>
              /\ \E o \in Offending(ret.self) :
                    heap[o[1]].bindings[o[2]].key = ret.key
        /\ ret.raised # "ValueError" => ret.raised = ""

\* to_string raised for a list bound two levels below the object
C6_Witness ==
    /\ ret.op = "to_string"
    /\ ret.raised = "ValueError"
    /\ ret.self = 3
    /\ Children(3) = {2}
    /\ Children(2) = {1}
    /\ \A o \in Offending(3) : o[1] = 1

\* C10: to_string and collect_dataframes leave every SQL object as it was
\* constructed, all to_string calls on an object return the same text and all
\* collect_dataframes calls on it the same set of aliases.
C10_Idempotent ==
    \A q \in 1..Len(seen) :
        /\ heap[q] = seen[q].made
        /\ Cardinality(seen[q].texts) <= 1
        /\ Cardinality(seen[q].names) <= 1

\* both methods were called again on an object that nests another and binds
\* a DataFrame, after calls on the nested object
C10_Witness ==
    /\ Len(seen) = 2
    /\ Children(2) = {1}
    /\ FramesOf(2) # {}
    /\ \A q \in 1..2 : seen[q].texts # {} /\ seen[q].names # {}
    /\ ret.op = "to_string"
    /\ ret.self = 2
    /\ ret.text \in seen[2].texts

(***************************************************************************)
(* C1, C2, C3, C7                                                          *)
(***************************************************************************)
\* C1 as the specification states it: when a DuckDB.query call has returned
\* or raised, the connection it opened is closed.
C1_QueryCloses ==
    ret.op = "query" =>
        \A c \in 1..Len(conns) : conns[c].by = "query" => ~conns[c].open

\* C2 as the specification states it: the connection given to a with-block
\* is closed once the block has exited, and the exit closes no other one.
C2_BlockCloses ==
    /\ \A c \in exited : ~conns[c].open
    /\ ret.op = "exit" => \A i \in 1..Len(ret.args) : ret.args[i] = ret.self

\* the names of the form df_<digits> that occur in text
AliasesIn(text) ==
    {SubSeq(text, i, i + 2 + SpanLen(Drop(text, i + 2), Digits)) :
        i \in {j \in 1..(Len(text) - 2) : SubSeq(text, j, j + 2) = <<"d", "f", "_">>}}

\* C3: when DuckDB.query submits the rendered text to a connection, every
\* DataFrame alias in the text has been registered on that connection by an
\* earlier call, for the DataFrame whose identity the alias carries, and that
\* DataFrame is bound in the tree of the object.
C3_RegisteredBeforeSubmit ==
    \A c \in 1..Len(conns) :
        \A i \in 1..Len(conns[c].log) :
            conns[c].log[i].kind = "select" =>
                \A a \in AliasesIn(conns[c].log[i].arg) :
                    /\ \E j \in 1..(i - 1) :
                          /\ conns[c].log[j].kind = "register"
                          /\ conns[c].log[j].arg = a
                          /\ df_name(conns[c].log[j].obj) = a
                          /\ conns[c].log[j].obj \in FramesOf(ret.self)
                    /\ a \in ItemKeys(conns[c].registered)
                    /\ df_name(ItemValue(conns[c].registered, a)) = a

\* the texts submitted to connection c
Submitted(c) ==
    {conns[c].log[i].arg :
        i \in {j \in 1..Len(conns[c].log) : conns[c].log[j].kind = "select"}}

\* a text with two aliases, one of them from two levels down, was submitted
C3_Witness ==
    /\ ret.op = "query"
    /\ ret.self = 3
    /\ Children(3) = {2}
    /\ Children(2) = {1}
    /\ \E c \in 1..Len(conns) :
          \E text \in Submitted(c) :
              /\ Cardinality(AliasesIn(text)) = 2
              /\ \E d \in DataFrames :
                    /\ df_name(d) \in AliasesIn(text)
                    /\ \A i \in 1..Len(heap[3].bindings) :
                          heap[3].bindings[i].val # DfVal(d)
                    /\ \A i \in 1..Len(heap[2].bindings) :
                          heap[2].bindings[i].val # DfVal(d)

\* the place of a statement in the order connect is to keep
Rank(st) ==
    CASE st.kind \in {"install httpfs; load httpfs;", "install aws; load aws;"} -> 1
      [] st.kind = "CALL load_aws_credentials" -> 2
      [] st.kind = "options" -> 3
      [] OTHER -> 4

\* C7: on every connection the extension statements come before the
\* credential call, which is for the configured profile, and the
\* initialization SQL comes after both and once; a connection that connect
\* returned has been sent all of them; without remote storage the
\* initialization SQL is the only statement connect sends.
C7_ConnectOrder ==
    \A c \in 1..Len(conns) :
        LET log == conns[c].log
            setup == {i \in 1..Len(log) : Rank(log[i]) < 4}
        IN /\ \A i, j \in 1..Len(log) : i < j => Rank(log[i]) <= Rank(log[j])
           /\ \A i, j \in setup : log[i] = log[j] => i = j
           /\ \A i \in setup :
                 /\ Rank(log[i]) = 2 => log[i].arg = cfg.aws_profile
                 /\ Rank(log[i]) = 3 => log[i].arg = cfg.options
                 /\ Rank(log[i]) = 2 => Cardinality({j \in setup : j < i}) = 2
                 /\ Rank(log[i]) = 3 =>
                       Cardinality({j \in setup : j < i}) =
                           IF cfg.s3_storage_used THEN 3 ELSE 0
           /\ ~cfg.s3_storage_used => \A i \in setup : Rank(log[i]) = 3
           /\ (ret.op \in {"connect", "enter"} /\ ret.raised = "" /\ ret.self = c)
                 => Cardinality(setup) = IF cfg.s3_storage_used THEN 4 ELSE 1

\* connect returned a connection with remote storage set up
C7_Witness ==
    /\ cfg.s3_storage_used
    /\ ret.op = "connect"
    /\ ret.raised = ""
    /\ Len(conns[ret.self].log) = 4
    /\ \E c \in 1..Len(conns) : Len(conns[c].log) = 3

====
